---------------------------- MODULE Spec2Model ----------------------------
(***************************************************************************)
(* A model of bedrock-updater's BedrockUpdater (src/src/updater.rs): one   *)
(* cycle of run_updater fetches the download page, extracts the download   *)
(* link, resolves the current and the latest version, compares them, and,  *)
(* when the server is behind, downloads the archive and merges it into the *)
(* server directory (install_server).                                      *)
(*                                                                         *)
(* Text (file contents, version strings, URL paths) is a sequence of       *)
(* one-character strings.  The file system is a function from absolute     *)
(* paths (sequences of names) to nodes.                                    *)
(***************************************************************************)
EXTENDS Integers, Sequences, FiniteSets, TLC

(***************************************************************************)
(* Text                                                                    *)
(***************************************************************************)
Digits == {"0", "1", "2", "3", "4", "5", "6", "7", "8", "9"}

Letters == {"a", "b", "c", "s", "u", "n", "o", "x", "z"}

\* A byte that is not valid UTF-8 (String::from_utf8 fails on it).
BadByte == "\\xFF"

IsDigit(c) == c \in Digits

IsAlphabetic(c) == c \in Letters

DigitVal(c) ==
    CASE c = "0" -> 0 [] c = "1" -> 1 [] c = "2" -> 2 [] c = "3" -> 3
      [] c = "4" -> 4 [] c = "5" -> 5 [] c = "6" -> 6 [] c = "7" -> 7
      [] c = "8" -> 8 [] c = "9" -> 9

\* t[i..j] (empty when j < i)
Slice(t, i, j) == IF j < i THEN << >> ELSE SubSeq(t, i, j)

\* String::from_utf8(contents): Ok unless the bytes hold an invalid byte
IsUtf8(t) == \A i \in 1..Len(t) : t[i] # BadByte

(***************************************************************************)
(* The regex \d+(\.\d+){3} of get_latest_version, leftmost match.          *)
(***************************************************************************)
\* the index of the last digit of the maximal run of digits starting at i
\* (i - 1 when t[i] is no digit)
RECURSIVE DigitRunEnd(_, _)
DigitRunEnd(t, i) ==
    IF i <= Len(t) /\ IsDigit(t[i]) THEN DigitRunEnd(t, i + 1) ELSE i - 1

\* after a run of digits ending at e, match k further groups "\.\d+";
\* the end of the match, or 0 when there is none
RECURSIVE MatchGroups(_, _, _)
MatchGroups(t, e, k) ==
    IF k = 0 THEN e
    ELSE IF e + 2 <= Len(t) /\ t[e + 1] = "." /\ IsDigit(t[e + 2])
         THEN MatchGroups(t, DigitRunEnd(t, e + 2), k - 1)
         ELSE 0

\* the end of the match of the pattern that starts at i, or 0
MatchAt(t, i) ==
    IF i <= Len(t) /\ IsDigit(t[i]) THEN MatchGroups(t, DigitRunEnd(t, i), 3)
    ELSE 0

\* pattern.find(t): the leftmost match as <<start, end>>, or <<0, 0>>
RECURSIVE FindFrom(_, _)
FindFrom(t, i) ==
    IF i > Len(t) THEN <<0, 0>>
    ELSE IF MatchAt(t, i) # 0 THEN <<i, MatchAt(t, i)>>
    ELSE FindFrom(t, i + 1)

RegexFind(t) == FindFrom(t, 1)

(***************************************************************************)
(* Results: [ok |-> TRUE, val |-> v] or [ok |-> FALSE, err |-> e]          *)
(***************************************************************************)
Ok(v) == [ok |-> TRUE, val |-> v, err |-> "None"]

Err(e) == [ok |-> FALSE, val |-> << >>, err |-> e]

\* Option<&str>
None == [some |-> FALSE, val |-> << >>]

Some(v) == [some |-> TRUE, val |-> v]

(***************************************************************************)
(* get_latest_version: the first match of the pattern in its argument      *)
(***************************************************************************)
get_latest_version(file_name) ==
    LET m == RegexFind(file_name)
    IN  IF m[1] = 0 THEN Err("NoVersionString")
        ELSE Ok(SubSeq(file_name, m[1], m[2]))

(***************************************************************************)
(* version_compare::Version, as used by get_versions and try_update        *)
(***************************************************************************)
\* i32::MAX
I32Max == 2147483646 + 1

\* the value of a run of digits, or -1 when it does not fit an i32
RECURSIVE DigitsValue(_, _)
DigitsValue(t, acc) ==
    IF t = << >> THEN acc
    ELSE IF acc > (I32Max - DigitVal(Head(t))) \div 10 THEN -1
    ELSE DigitsValue(Tail(t), 10 * acc + DigitVal(Head(t)))

\* part.parse::<i32>() succeeds: digits only, not empty, no overflow
ParsesI32(p) ==
    /\ p # << >>
    /\ \A i \in 1..Len(p) : IsDigit(p[i])
    /\ DigitsValue(p, 0) >= 0

NumberPart(n) == [num |-> TRUE, n |-> n, text |-> << >>]

TextPart(t) == [num |-> FALSE, n |-> 0, text |-> t]

\* version.split('.'): the pieces between the dots
RECURSIVE SplitDots(_, _)
SplitDots(t, cur) ==
    IF t = << >> THEN <<cur>>
    ELSE IF Head(t) = "." THEN <<cur>> \o SplitDots(Tail(t), << >>)
    ELSE SplitDots(Tail(t), Append(cur, Head(t)))

\* a number suffixed by text is split in a number and a text part
NumberPrefixEnd(p) ==
    LET e == DigitRunEnd(p, 1)
    IN  IF e >= 1 /\ e < Len(p) /\ IsAlphabetic(p[e + 1])
           /\ ParsesI32(SubSeq(p, 1, e))
        THEN e ELSE 0

PartsOf(p) ==
    IF p = << >> THEN << >>
    ELSE IF ParsesI32(p) THEN <<NumberPart(DigitsValue(p, 0))>>
    ELSE IF NumberPrefixEnd(p) # 0
         THEN <<NumberPart(DigitsValue(SubSeq(p, 1, NumberPrefixEnd(p)), 0)),
                TextPart(Slice(p, NumberPrefixEnd(p) + 1, Len(p)))>>
    ELSE <<TextPart(p)>>

RECURSIVE PartsOfAll(_)
PartsOfAll(pieces) ==
    IF pieces = << >> THEN << >>
    ELSE PartsOf(Head(pieces)) \o PartsOfAll(Tail(pieces))

split_version_str(t) == PartsOfAll(SplitDots(t, << >>))

\* Version::from(text): None when parts were parsed and none is a number
VersionFrom(t) ==
    LET parts == split_version_str(t)
    IN  IF parts # << >> /\ \A i \in 1..Len(parts) : ~parts[i].num
        THEN Err("UnparseableVersion")
        ELSE Ok([str |-> t, parts |-> parts])

Flip(c) == CASE c = "Lt" -> "Gt" [] c = "Gt" -> "Lt" [] OTHER -> c

\* the parts of a left over when b is exhausted: zeros are skipped
RECURSIVE RestCmp(_)
RestCmp(a) ==
    IF a = << >> THEN "Eq"
    ELSE IF Head(a).num /\ Head(a).n = 0 THEN RestCmp(Tail(a))
    ELSE "Gt"

\* compare_iter: part by part, most significant first
RECURSIVE CompareParts(_, _)
CompareParts(a, b) ==
    IF a = << >> THEN Flip(RestCmp(b))
    ELSE IF b = << >> THEN RestCmp(a)
    ELSE IF Head(a).num /\ Head(b).num
         THEN IF Head(a).n < Head(b).n THEN "Lt"
              ELSE IF Head(a).n > Head(b).n THEN "Gt"
              ELSE CompareParts(Tail(a), Tail(b))
    ELSE CompareParts(Tail(a), Tail(b))

\* Version::compare
Compare(a, b) == CompareParts(a.parts, b.parts)


(***************************************************************************)
(* Paths.  A Path is [abs, comps]: whether it is absolute, and its         *)
(* components.  The working directory is the root, so a relative and an    *)
(* absolute path with the same components name the same place.             *)
(***************************************************************************)
AbsPath(comps) == [abs |-> TRUE, comps |-> comps]

RelPath(comps) == [abs |-> FALSE, comps |-> comps]

\* Path::join: an absolute argument replaces the receiver
Join(a, b) ==
    IF b.abs THEN b ELSE [abs |-> a.abs, comps |-> a.comps \o b.comps]

\* the place in the file system a Path names
Resolve(p) == p.comps

\* Path::file_name
FileName(p) == p.comps[Len(p.comps)]

Parent(q) == Slice(q, 1, Len(q) - 1)

IsPrefix(q, r) == Len(q) <= Len(r) /\ SubSeq(r, 1, Len(q)) = q

\* a file name that is not valid UTF-8: OsStr::to_str gives None
NonUtf8Name == "\\xFFname"

(***************************************************************************)
(* The file system: a function from the places that exist to their nodes.  *)
(***************************************************************************)
DirNode == [kind |-> "dir", content |-> << >>]

FileNode(c) == [kind |-> "file", content |-> c]

Exists(f, q) == q \in DOMAIN f

IsFile(f, q) == q \in DOMAIN f /\ f[q].kind = "file"

IsDir(f, q) == q \in DOMAIN f /\ f[q].kind = "dir"

\* the places at and below q
Under(f, q) == {r \in DOMAIN f : IsPrefix(q, r)}

\* f with the places in S removed
Without(f, S) == [r \in (DOMAIN f) \ S |-> f[r]]

\* f with place q holding node n
With(f, q, n) == [r \in (DOMAIN f) \cup {q} |-> IF r = q THEN n ELSE f[r]]

\* the proper and improper ancestors of q, root included
Ancestors(q) == {Slice(q, 1, k) : k \in 0..Len(q)}

\* std::fs::create_dir_all(q) can succeed: no ancestor is a file
CanCreateDirAll(f, q) == \A a \in Ancestors(q) : ~IsFile(f, a)

CreateDirAll(f, q) ==
    [r \in (DOMAIN f) \cup Ancestors(q) |-> IF r \in DOMAIN f THEN f[r] ELSE DirNode]

\* std::fs::write(q, c) / File::create(q) can succeed
CanWriteFile(f, q) == q # << >> /\ IsDir(f, Parent(q)) /\ ~IsDir(f, q)

WriteFile(f, q, c) == With(f, q, FileNode(c))

\* std::fs::read_dir(q): the names of the immediate entries of q
ReadDirNames(f, q) ==
    {r[Len(r)] : r \in {x \in DOMAIN f : Len(x) = Len(q) + 1 /\ IsPrefix(q, x)}}

\* std::fs::remove_dir_all(q)
RemoveDirAll(f, q) == Without(f, Under(f, q))

\* the files below q, as a function from the path relative to q to the content
FilesBelow(f, q) ==
    LET rels == {Slice(r, Len(q) + 1, Len(r)) : r \in {x \in Under(f, q) : IsFile(f, x)}}
    IN  [rel \in rels |-> f[q \o rel].content]


(***************************************************************************)
(* zip_extract::extract(archive, dest, strip_toplevel = true).  An archive *)
(* is [entries, bad]: its entries in order, each [path, node], and the     *)
(* index of the first entry that cannot be read (0: none; corrupt bytes).  *)
(***************************************************************************)
\* every entry lies under one top-level directory (at least two entries)
has_toplevel(entries) ==
    /\ Len(entries) >= 2
    /\ \A i \in 1..Len(entries) : entries[i].path[1] = entries[1].path[1]

\* the path an entry is written to, relative to dest
ExtractPath(entries, i) ==
    IF has_toplevel(entries) THEN Tail(entries[i].path) ELSE entries[i].path

CanExtractEntry(f, out, node) ==
    IF node.kind = "dir" THEN CanCreateDirAll(f, out)
    ELSE CanCreateDirAll(f, Parent(out)) /\ ~IsDir(f, out)

ExtractEntry(f, out, node) ==
    IF node.kind = "dir" THEN CreateDirAll(f, out)
    ELSE WriteFile(CreateDirAll(f, Parent(out)), out, node.content)

\* entries i.. are written in order; the first that fails ends the
\* extraction with what was written before it left in place
RECURSIVE ExtractFrom(_, _, _, _)
ExtractFrom(f, dest, zip, i) ==
    IF i > Len(zip.entries) THEN [ok |-> TRUE, fs |-> f]
    ELSE IF i = zip.bad THEN [ok |-> FALSE, fs |-> f]
    ELSE IF ExtractPath(zip.entries, i) = << >>
         THEN ExtractFrom(f, dest, zip, i + 1)
    ELSE IF ~CanExtractEntry(f, dest \o ExtractPath(zip.entries, i), zip.entries[i].node)
         THEN [ok |-> FALSE, fs |-> f]
    ELSE ExtractFrom(ExtractEntry(f, dest \o ExtractPath(zip.entries, i),
                                  zip.entries[i].node), dest, zip, i + 1)


\* an extraction into the directory above dest
ExtractIntoParent(f, dest, zip) == ExtractFrom(f, Parent(dest), zip, 1)

Extract(f, dest, zip) == ExtractFrom(f, dest, zip, 1)

(***************************************************************************)
(* std::fs::copy and fs_extra::dir::copy(from, to, overwrite(true))        *)
(***************************************************************************)
\* std::fs::copy(src, dst) can succeed
CanCopyFile(f, src, dst) == IsFile(f, src) /\ CanWriteFile(f, dst)


\* a copy that leaves an existing destination alone
CopyFileIfAbsent(f, src, dst) ==
    IF Exists(f, dst) THEN f ELSE WriteFile(f, dst, f[src].content)

CopyFile(f, src, dst) == WriteFile(f, dst, f[src].content)

\* the directories at and below src, relative to src
DirsBelow(f, src) ==
    {Slice(r, Len(src) + 1, Len(r)) : r \in {x \in Under(f, src) : IsDir(f, x)}}

\* dir::copy creates the missing directories of the source tree under
\* target first (an existing place is left as it is)
CopyDirs(f, src, target) ==
    [r \in (DOMAIN f) \cup {target \o d : d \in DirsBelow(f, src)} |->
        IF r \in DOMAIN f THEN f[r] ELSE DirNode]

\* the files of src (relative to it) that a file copy to target can write
CopyableFiles(f, src, target) ==
    {rel \in DOMAIN FilesBelow(f, src) : CanWriteFile(CopyDirs(f, src, target), target \o rel)}

\* the files S of the source tree copied onto target, overwriting
CopyFiles(f, src, target, S) ==
    LET g == CopyDirs(f, src, target)
    IN  [r \in (DOMAIN g) \cup {target \o rel : rel \in S} |->
            IF \E rel \in S : r = target \o rel
            THEN FileNode(f[src \o Slice(r, Len(target) + 1, Len(r))].content)
            ELSE g[r]]

\* dir::copy(src, to) can succeed: src is a directory, `to` exists, and every
\* file of src can be written under to/<name of src>
CanCopyDir(f, src, to) ==
    /\ IsDir(f, src)
    /\ src # << >>
    /\ IsDir(f, to)
    /\ CopyableFiles(f, src, to \o <<src[Len(src)]>>) = DOMAIN FilesBelow(f, src)


\* a directory copy that removes the destination directory first
CopyDirReplacing(f, src, to) ==
    LET g == Without(f, Under(f, to \o <<src[Len(src)]>>))
    IN  CopyFiles(g, src, to \o <<src[Len(src)]>>, DOMAIN FilesBelow(g, src))

CopyDir(f, src, to) ==
    CopyFiles(f, src, to \o <<src[Len(src)]>>, DOMAIN FilesBelow(f, src))


(***************************************************************************)
(* The download page.  A document is the sequence of the elements that the *)
(* selector matches, each with its href attribute (an Option).  A URL is   *)
(* scheme "h:", a path, and an optional query after "?".                   *)
(***************************************************************************)
\* the index of the first "?" or "#" of t at or after i (Len(t) + 1: none)
RECURSIVE PathEnd(_, _)
PathEnd(t, i) ==
    IF i > Len(t) \/ t[i] = "?" \/ t[i] = "#" THEN i ELSE PathEnd(t, i + 1)

\* a URL whose path runs on into the query
UrlParseKeepQuery(t) ==
    IF Len(t) >= 3 /\ t[1] = "h" /\ t[2] = ":" /\ t[3] = "/"
    THEN Ok([text |-> t, path |-> SubSeq(t, 3, Len(t))])
    ELSE Err("UrlParseError")

\* Url::parse(link): fails on a link without a scheme; Url::path() is the
\* text between the scheme and the query
UrlParse(t) ==
    IF Len(t) >= 3 /\ t[1] = "h" /\ t[2] = ":" /\ t[3] = "/"
    THEN Ok([text |-> t, path |-> SubSeq(t, 3, PathEnd(t, 3) - 1)])
    ELSE Err("UrlParseError")

\* the first matching element taken, whatever follows it
get_latest_download_link_first(doc) ==
    IF Len(doc) = 0 THEN Err("NoDownloadElement")
    ELSE IF ~doc[1].href.some THEN Err("NoDownloadLinkAttr")
    ELSE UrlParse(doc[1].href.val)

get_latest_download_link(doc) ==
    IF Len(doc) = 0 THEN Err("NoDownloadElement")
    ELSE IF Len(doc) > 1 THEN Err("TooManyDownloadElements")
    ELSE IF ~doc[1].href.some THEN Err("NoDownloadLinkAttr")
    ELSE UrlParse(doc[1].href.val)

(***************************************************************************)
(* get_current_version: the text taken as the current version, and whether *)
(* the version file is written with it                                     *)
(***************************************************************************)

\* the record, when there is one, taken before set_first_version
get_current_version_record_first(set_first_version, contents) ==
    IF contents.some THEN Ok(contents.val)
    ELSE IF set_first_version.some THEN Ok(set_first_version.val)
    ELSE Err("NoCurrentVersion")

\* a missing record taken as version 0
get_current_version_default(set_first_version, contents) ==
    IF set_first_version.some THEN Ok(set_first_version.val)
    ELSE IF contents.some THEN Ok(contents.val)
    ELSE Ok(<<"0">>)

get_current_version(set_first_version, contents) ==
    IF ~set_first_version.some /\ ~contents.some THEN Err("NoCurrentVersion")
    ELSE IF ~set_first_version.some THEN Ok(contents.val)
    ELSE Ok(set_first_version.val)

writes_version_file(set_first_version, contents) == set_first_version.some

(***************************************************************************)
(* install_server: the blacklist and the test that guards a copy           *)
(***************************************************************************)
overwrite_blacklist == {"permissions.json", "allowlist.json", "server.properties"}


\* a copy guard that forgets the blacklist
should_copy_always(file_name, destination_exists) == TRUE

\* a copy guard that never copies a name of the blacklist
should_copy_unless_blacklisted(file_name, destination_exists) ==
    file_name \notin overwrite_blacklist

\* !blacklist.contains(file_name) || !destination.exists()
should_copy(file_name, destination_exists) ==
    file_name \notin overwrite_blacklist \/ ~destination_exists

\* the source of a copy: update_dir joined with the entry's path
copy_source(update_dir, path) == Join(update_dir, path)

\* the destination of a copy: server_dir joined with the entry's file name
copy_destination(server_dir, file_name) == Join(server_dir, RelPath(<<file_name>>))


(***************************************************************************)
(* The inputs of the model: version texts, download pages, archives and    *)
(* the file systems the updater starts from.                               *)
(***************************************************************************)
\* how many cycles of run_updater the outer loop makes
MaxCycles == 2

V_1_9_0_0 == <<"1", ".", "9", ".", "0", ".", "0">>

V_1_10_0_0 == <<"1", ".", "1", "0", ".", "0", ".", "0">>

\* a text with two components only
V_1_10 == <<"1", ".", "1", "0">>

\* a text without a number
V_abc == <<"a", "b", "c">>

\* bytes that are not UTF-8
V_bad == <<BadByte>>

Href(t) == [href |-> Some(t)]

NoHref == [href |-> None]

Link_1_10_0_0 == <<"h", ":", "/", "b", "-", "1", ".", "1", "0", ".", "0", ".", "0", ".", "z">>

Link_1_9_0_0 == <<"h", ":", "/", "b", "-", "1", ".", "9", ".", "0", ".", "0", ".", "z">>

\* a version-like directory before the file name
Link_dir_version == <<"h", ":", "/", "1", ".", "2", ".", "3", ".", "4", "/", "b", "-", "1", ".", "1", "0", ".", "0", ".", "0", ".", "z">>

\* a version-like text in the query
Link_query_version == <<"h", ":", "/", "b", "-", "1", ".", "9", ".", "0", ".", "0", ".", "z", "?", "1", ".", "1", "0", ".", "0", ".", "0">>

\* a version-like text in the query only
Link_query_only == <<"h", ":", "/", "b", ".", "z", "?", "1", ".", "1", "0", ".", "0", ".", "0">>

\* a file name without a version
Link_no_version == <<"h", ":", "/", "b", ".", "z">>

\* a link without a scheme
Link_relative == <<"b", ".", "z">>

Documents ==
    { << >>,
      <<Href(Link_1_10_0_0)>>,
      <<Href(Link_1_9_0_0)>>,
      <<Href(Link_1_10_0_0), Href(Link_1_9_0_0)>>,
      <<NoHref>>,
      <<Href(Link_dir_version)>>,
      <<Href(Link_query_version)>>,
      <<Href(Link_query_only)>>,
      <<Href(Link_no_version)>>,
      <<Href(Link_relative)>> }

\* file contents: new (two builds), old, the operator's, a world save
C_new == <<"n">>

C_new2 == <<"x">>

C_old == <<"o">>

C_user == <<"u">>

C_save == <<"s">>

ZipEntry(path, c) == [path |-> path, node |-> FileNode(c)]

\* a flat archive: a binary, a protected file and a directory
ZipFlat ==
    [entries |-> << ZipEntry(<<"bedrock_server">>, C_new),
                    ZipEntry(<<"server.properties">>, C_new),
                    ZipEntry(<<"worlds", "level.dat">>, C_new) >>,
     bad |-> 0]

\* an archive that wraps everything in one top-level directory
ZipWrapped ==
    [entries |-> << ZipEntry(<<"bedrock-server", "bedrock_server">>, C_new2),
                    ZipEntry(<<"bedrock-server", "permissions.json">>, C_new2) >>,
     bad |-> 0]

\* corrupt bytes: the second entry cannot be read
ZipCorrupt == [entries |-> ZipFlat.entries, bad |-> 2]

\* an entry whose name is not UTF-8
ZipBadName == [entries |-> << ZipEntry(<<NonUtf8Name>>, C_new) >>, bad |-> 0]

Archives == {ZipFlat, ZipWrapped, ZipCorrupt, ZipBadName}

ServerDirName == "srv"

UpdateDirName == "update"

VersionFileName == "version.txt"

Root == (<< >> :> DirNode)

\* no server directory
NoServerTree == Root

\* an empty server directory
FreshTree == Root @@ (<<ServerDirName>> :> DirNode)

\* a server in use: a binary, the operator's configuration, a world
LiveTree ==
    FreshTree
    @@ (<<ServerDirName, "bedrock_server">> :> FileNode(C_old))
    @@ (<<ServerDirName, "server.properties">> :> FileNode(C_user))
    @@ (<<ServerDirName, "worlds">> :> DirNode)
    @@ (<<ServerDirName, "worlds", "level.dat">> :> FileNode(C_old))
    @@ (<<ServerDirName, "worlds", "save.db">> :> FileNode(C_save))

InitialRecords == {V_1_9_0_0, V_1_10_0_0, V_1_10, V_bad}

InitialFileSystems ==
    {NoServerTree, FreshTree, LiveTree}
    \cup {With(t, <<ServerDirName, VersionFileName>>, FileNode(r)) :
            t \in {FreshTree, LiveTree}, r \in InitialRecords}

Overrides == {None, Some(V_1_9_0_0), Some(V_abc)}

\* BedrockUpdater::new: the update directory and the version file are given
\* relative to the server directory, which is absolute or relative
Updaters ==
    {[server_dir |-> sd,
      update_dir |-> Join(sd, RelPath(<<UpdateDirName>>)),
      version_path |-> Join(sd, RelPath(<<VersionFileName>>)),
      set_first_version |-> o] :
        sd \in {AbsPath(<<ServerDirName>>), RelPath(<<ServerDirName>>)},
        o \in Overrides}


(***************************************************************************)
(* The state                                                               *)
(***************************************************************************)
VARIABLES
    self,                \* the BedrockUpdater: its paths and set_first_version
    fs,                  \* the file system
    pc,                  \* where run_updater stands
    document,            \* run_updater: the fetched page
    download_link,       \* run_updater: the parsed download URL
    contents,            \* run_updater: the text read from the version file
    current,             \* run_updater: the current version
    latest,              \* run_updater: the latest version
    bedrock_server_zip,  \* try_update: the downloaded archive
    entries,             \* install_server: the staged entries still to visit
    result,              \* what the last cycle returned, and from where
    cycles,              \* the cycles started so far
    fs_cycle,            \* the file system when the running cycle started
    fs_install,          \* the file system when install_server was entered
    staged,              \* the staging tree when install_server enumerated it
    installed,           \* the version the cycles so far have installed and found since
    texts,               \* three version texts given to the comparison
    versions,            \* their parses by Version::from
    order                \* the comparisons try_update makes between them

vars == <<self, fs, pc, document, download_link, contents, current, latest,
          bedrock_server_zip, entries, result, cycles, fs_cycle, fs_install,
          staged, installed, texts, versions, order>>

\* the variables of the comparison of version texts
cmpvars == <<texts, versions, order>>

\* the variables of run_updater
runvars == <<self, fs, pc, document, download_link, contents, current, latest,
             bedrock_server_zip, entries, result, cycles, fs_cycle, fs_install,
             staged, installed>>

NoOrder == [ab |-> "None", ba |-> "None", bc |-> "None", ac |-> "None", aa |-> "None"]

NoUrl == [text |-> << >>, path |-> << >>]

NoVersion == [str |-> << >>, parts |-> << >>]

NoZip == [entries |-> << >>, bad |-> 0]

NoResult ==
    [status |-> "None", err |-> "None", at |-> "None", branch |-> "None",
     cmp |-> "None", path |-> << >>, version |-> << >>]

Running == [NoResult EXCEPT !.status = "Running"]

\* the steps of a cycle in which current and latest are resolved
AfterVersions ==
    {"VersionsResolved", "Updating", "Downloaded", "StagingCreated", "Extracted",
     "Copying", "VersionWritten"}

\* the steps of install_server
InstallSteps == {"Downloaded", "StagingCreated", "Extracted", "Copying", "VersionWritten"}

\* the subtree of f at q, as a function from the places relative to q
Subtree(f, q) ==
    [rel \in {Slice(r, Len(q) + 1, Len(r)) : r \in Under(f, q) \ {q}} |-> f[q \o rel]]

NoTree == Subtree(Root, <<"none">>)

Init ==
    /\ self \in Updaters
    /\ fs \in InitialFileSystems
    /\ pc = "Idle"
    /\ document = << >>
    /\ download_link = NoUrl
    /\ contents = None
    /\ current = NoVersion
    /\ latest = NoVersion
    /\ bedrock_server_zip = NoZip
    /\ entries = {}
    /\ result = NoResult
    /\ cycles = 0
    /\ fs_cycle = fs
    /\ fs_install = fs
    /\ staged = NoTree
    /\ installed = None
    /\ texts = << >>
    /\ versions = << >>
    /\ order = NoOrder

\* the places of the server directory, the staging tree and the version file
ServerDir == Resolve(self.server_dir)

UpdateDir == Resolve(self.update_dir)

VersionPath == Resolve(self.version_path)


\* a comparison without the test for equality
try_update_branch_no_eq(c) ==
    IF c = "Gt" THEN "AheadOfRemote" ELSE "Updating"

\* an older remote version installed over a newer server
try_update_branch_downgrade(c) ==
    IF c = "Eq" THEN "UpToDate" ELSE "Updating"

\* an install whatever the comparison gives
try_update_branch_always(c) == "Updating"

\* the branch try_update takes on the comparison of current with latest
try_update_branch(c) ==
    IF c = "Eq" THEN "UpToDate"
    ELSE IF c = "Gt" THEN "AheadOfRemote"
    ELSE "Updating"


\* the current version recorded in place of the latest
install_version_current(cur, lat) == cur

\* the version install_server records: try_update passes latest
install_version(cur, lat) == lat

\* run_updater returns from step `at`: its locals are dropped.  The result
\* keeps the comparison the cycle made, the branch taken, the path of the
\* download link and the text of the latest version.  `installed` becomes the
\* latest version when install_server has returned Ok; it is kept by a cycle
\* that resolves the same latest version again and dropped by any other.
Return(status, err, at) ==
    /\ pc' = "Idle"
    /\ result' = [status |-> status, err |-> err, at |-> at,
                  branch |-> IF pc \in InstallSteps \cup {"Updating"} THEN "Updating"
                             ELSE IF pc = "VersionsResolved"
                             THEN try_update_branch(Compare(current, latest))
                             ELSE "None",
                  cmp |-> IF pc \in AfterVersions THEN Compare(current, latest)
                          ELSE "None",
                  path |-> download_link.path,
                  version |-> latest.str]
    /\ document' = << >>
    /\ download_link' = NoUrl
    /\ contents' = None
    /\ current' = NoVersion
    /\ latest' = NoVersion
    /\ bedrock_server_zip' = NoZip
    /\ entries' = {}
    /\ installed' = IF status = "Ok" /\ at = "install_server" THEN Some(latest.str)
                    ELSE IF pc \in AfterVersions /\ latest.str = installed.val
                    THEN installed
                    ELSE None
    /\ UNCHANGED <<self, cycles, fs_cycle, fs_install, staged, cmpvars>>

\* a step to pc value `to`
Goto(to) ==
    /\ pc' = to
    /\ UNCHANGED <<self, cycles, result, fs_cycle, installed, cmpvars>>

(***************************************************************************)
(* run_updater                                                             *)
(***************************************************************************)
\* fetch_document: the page is fetched, or the request fails
FetchDocument ==
    /\ pc = "Idle"
    /\ cycles < MaxCycles
    /\ cycles' = cycles + 1
    /\ fs_cycle' = fs
    /\ fs_install' = fs
    /\ staged' = NoTree
    /\ \E ok \in BOOLEAN :
        IF ok
        THEN /\ \E doc \in Documents : document' = doc
             /\ installed' = installed
             /\ pc' = "DocumentFetched"
             /\ result' = Running
        ELSE /\ document' = << >>
             /\ installed' = None
             /\ pc' = "Idle"
             /\ result' = [NoResult EXCEPT !.status = "Err", !.err = "RequestError",
                                           !.at = "fetch_document"]
    /\ UNCHANGED <<self, fs, download_link, contents, current, latest,
                   bedrock_server_zip, entries, cmpvars>>

\* get_latest_download_link
GetLatestDownloadLink ==
    /\ pc = "DocumentFetched"
    /\ LET r == get_latest_download_link(document)
       IN  IF r.ok
           THEN /\ download_link' = r.val
                /\ Goto("LinkResolved")
                /\ UNCHANGED <<document, contents, current, latest,
                               bedrock_server_zip, entries, fs_install, staged>>
           ELSE Return("Err", r.err, "get_latest_download_link")
    /\ UNCHANGED fs

\* a cycle that goes on without a server directory
CheckServerDirUnchecked ==
    /\ pc = "LinkResolved"
    /\ Goto("ServerDirChecked")
    /\ UNCHANGED <<document, download_link, contents, current, latest,
                   bedrock_server_zip, entries, fs_install, staged>>
    /\ UNCHANGED fs

\* self.server_dir.exists().else_err(NoServerPath)
CheckServerDir ==
    /\ pc = "LinkResolved"
    /\ IF Exists(fs, ServerDir)
       THEN /\ Goto("ServerDirChecked")
            /\ UNCHANGED <<document, download_link, contents, current, latest,
                           bedrock_server_zip, entries, fs_install, staged>>
       ELSE Return("Err", "NoServerPath", "server_dir_exists")
    /\ UNCHANGED fs

\* std::fs::read(version_path): a failed read is None; bytes that are not
\* UTF-8 are an error
ReadVersionFile ==
    /\ pc = "ServerDirChecked"
    /\ IF ~IsFile(fs, VersionPath)
       THEN /\ contents' = None
            /\ Goto("ContentsRead")
            /\ UNCHANGED <<document, download_link, current, latest,
                           bedrock_server_zip, entries, fs_install, staged>>
       ELSE IF IsUtf8(fs[VersionPath].content)
       THEN /\ contents' = Some(fs[VersionPath].content)
            /\ Goto("ContentsRead")
            /\ UNCHANGED <<document, download_link, current, latest,
                           bedrock_server_zip, entries, fs_install, staged>>
       ELSE Return("Err", "FromUtf8Error", "read_version_file")
    /\ UNCHANGED fs

\* get_versions: get_current_version runs first (and writes the version file
\* when set_first_version is given), then the current text is parsed, then
\* get_latest_version runs on the URL's path and its match is parsed
GetVersions ==
    /\ pc = "ContentsRead"
    /\ \E io_ok \in BOOLEAN :
        LET cur  == get_current_version(self.set_first_version, contents)
            wr   == writes_version_file(self.set_first_version, contents)
            curv == VersionFrom(cur.val)
            lat  == get_latest_version(download_link.path)
            latv == VersionFrom(lat.val)
        IN  IF ~cur.ok
            THEN io_ok /\ Return("Err", cur.err, "get_current_version") /\ UNCHANGED fs
            ELSE IF wr /\ ~(io_ok /\ CanWriteFile(fs, VersionPath))
            THEN Return("Err", "IoError", "get_current_version") /\ UNCHANGED fs
            ELSE /\ (wr \/ io_ok)
                 /\ fs' = IF wr THEN WriteFile(fs, VersionPath, cur.val) ELSE fs
                 /\ IF ~curv.ok THEN Return("Err", curv.err, "get_versions")
                    ELSE IF ~lat.ok THEN Return("Err", lat.err, "get_versions")
                    ELSE IF ~latv.ok THEN Return("Err", latv.err, "get_versions")
                    ELSE /\ current' = curv.val
                         /\ latest' = latv.val
                         /\ Goto("VersionsResolved")
                         /\ UNCHANGED <<document, download_link, contents,
                                        bedrock_server_zip, entries, fs_install,
                                        staged>>

(***************************************************************************)
(* try_update                                                              *)
(***************************************************************************)
\* the comparison: up to date, ahead of the remote, or behind it
CompareVersions ==
    /\ pc = "VersionsResolved"
    /\ IF try_update_branch(Compare(current, latest)) = "Updating"
       THEN /\ Goto("Updating")
            /\ UNCHANGED <<document, download_link, contents, current, latest,
                           bedrock_server_zip, entries, fs_install, staged>>
       ELSE Return("Ok", "None", "try_update")
    /\ UNCHANGED fs

\* a download that creates the staging directory before the request
DownloadIntoStaging ==
    /\ pc = "Updating"
    /\ CanCreateDirAll(fs, UpdateDir)
    /\ fs' = CreateDirAll(fs, UpdateDir)
    /\ Return("Err", "RequestError", "download")

\* the archive is downloaded, or the request fails
Download ==
    /\ pc = "Updating"
    /\ \E ok \in BOOLEAN :
        IF ok
        THEN /\ \E zip \in Archives : bedrock_server_zip' = zip
             /\ fs_install' = fs
             /\ Goto("Downloaded")
             /\ UNCHANGED <<document, download_link, contents, current, latest,
                            entries, staged>>
        ELSE Return("Err", "RequestError", "download")
    /\ UNCHANGED fs

(***************************************************************************)
(* install_server                                                          *)
(***************************************************************************)
InstallFrame ==
    UNCHANGED <<document, download_link, contents, current, latest,
                bedrock_server_zip>>

\* std::fs::create_dir_all(self.update_dir)
CreateUpdateDir ==
    /\ pc = "Downloaded"
    /\ \E io_ok \in BOOLEAN :
        IF io_ok /\ CanCreateDirAll(fs, UpdateDir)
        THEN /\ fs' = CreateDirAll(fs, UpdateDir)
             /\ Goto("StagingCreated")
             /\ InstallFrame
             /\ UNCHANGED <<entries, fs_install, staged>>
        ELSE /\ Return("Err", "IoError", "create_dir_all")
             /\ UNCHANGED fs

\* zip_extract::extract(zip, self.update_dir, true)
ExtractZip ==
    /\ pc = "StagingCreated"
    /\ LET r == Extract(fs, UpdateDir, bedrock_server_zip)
       IN  /\ fs' = r.fs
           /\ IF r.ok
              THEN /\ Goto("Extracted")
                   /\ InstallFrame
                   /\ UNCHANGED <<entries, fs_install, staged>>
              ELSE Return("Err", "ServerZipExtractFailed", "extract")

\* std::fs::read_dir(self.update_dir): the paths of the staged entries, each
\* update_dir joined with the entry's name
ReadUpdateDir ==
    /\ pc = "Extracted"
    /\ \E io_ok \in BOOLEAN :
        IF io_ok /\ IsDir(fs, UpdateDir)
        THEN /\ entries' = {Join(self.update_dir, RelPath(<<n>>)) :
                              n \in ReadDirNames(fs, UpdateDir)}
             /\ staged' = Subtree(fs, UpdateDir)
             /\ Goto("Copying")
             /\ InstallFrame
             /\ UNCHANGED fs_install
        ELSE Return("Err", "IoError", "read_dir")
    /\ UNCHANGED fs

\* one turn of the loop over the staged entries, in the order read_dir gives
\* (any): the entry is skipped, copied as a file, or copied as a directory
CopyEntry ==
    /\ pc = "Copying"
    /\ \E path \in entries, io_ok \in BOOLEAN :
        LET file_name   == FileName(path)
            destination == copy_destination(self.server_dir, file_name)
            source      == copy_source(self.update_dir, path)
            src         == Resolve(source)
            dst         == Resolve(destination)
            next        == /\ entries' = entries \ {path}
                           /\ Goto("Copying")
                           /\ InstallFrame
                           /\ UNCHANGED <<fs_install, staged>>
        IN  IF file_name = NonUtf8Name
            THEN io_ok /\ Return("Err", "NoFileName", "file_name") /\ UNCHANGED fs
            ELSE IF ~should_copy(file_name, Exists(fs, dst))
            THEN io_ok /\ next /\ UNCHANGED fs
            ELSE IF IsFile(fs, src)
            THEN IF io_ok /\ CanCopyFile(fs, src, dst)
                 THEN next /\ fs' = CopyFile(fs, src, dst)
                 ELSE Return("Err", "IoError", "copy") /\ UNCHANGED fs
            ELSE IF io_ok /\ CanCopyDir(fs, src, ServerDir)
                 THEN next /\ fs' = CopyDir(fs, src, ServerDir)
                 ELSE /\ Return("Err", "FsExtraError", "copy")
                      /\ IF IsDir(fs, src) /\ src # << >>
                         THEN \E S \in SUBSET CopyableFiles(fs, src, ServerDir \o <<file_name>>) :
                                /\ S # DOMAIN FilesBelow(fs, src)
                                /\ fs' = CopyFiles(fs, src, ServerDir \o <<file_name>>, S)
                         ELSE UNCHANGED fs


\* the version written inside the loop, before the entries are done
WriteVersionInLoop ==
    /\ pc = "Copying"
    /\ CanWriteFile(fs, VersionPath)
    /\ fs' = WriteFile(fs, VersionPath, install_version(current, latest).str)
    /\ Goto("Copying")
    /\ InstallFrame
    /\ UNCHANGED <<entries, fs_install, staged>>

\* fs::write(self.version_path, new_version.as_str()), after the loop
WriteVersion ==
    /\ pc = "Copying"
    /\ entries = {}
    /\ \E io_ok \in BOOLEAN :
        IF io_ok /\ CanWriteFile(fs, VersionPath)
        THEN /\ fs' = WriteFile(fs, VersionPath, install_version(current, latest).str)
             /\ Goto("VersionWritten")
             /\ InstallFrame
             /\ UNCHANGED <<entries, fs_install, staged>>
        ELSE Return("Err", "IoError", "write_version") /\ UNCHANGED fs

\* std::fs::remove_dir_all(self.update_dir), then Ok(())
CleanUp ==
    /\ pc = "VersionWritten"
    /\ \E io_ok \in BOOLEAN :
        IF io_ok
        THEN /\ fs' = RemoveDirAll(fs, UpdateDir)
             /\ Return("Ok", "None", "install_server")
        ELSE Return("Err", "IoError", "remove_dir_all") /\ UNCHANGED fs

Next ==
    \/ FetchDocument
    \/ GetLatestDownloadLink
    \/ CheckServerDir
    \/ ReadVersionFile
    \/ GetVersions
    \/ CompareVersions
    \/ Download
    \/ CreateUpdateDir
    \/ ExtractZip
    \/ ReadUpdateDir
    \/ CopyEntry
    \/ WriteVersion
    \/ CleanUp

Spec == Init /\ [][Next]_vars

\* a step of Next can be taken: a cycle is running, or another may start
NextEnabled == pc # "Idle" \/ cycles < MaxCycles

\* every await and every I/O call of a cycle returns: a step that can be
\* taken is taken.  This is weak fairness of Next, WF_vars(Next), with
\* ENABLED <<Next>>_vars written out as NextEnabled.
FairSpec == Spec /\ ([]<>(~NextEnabled) \/ []<><<Next>>_vars)

(***************************************************************************)
(* The comparison of versions on its own: three texts of four              *)
(* dot-separated integers are parsed as get_versions parses them and       *)
(* compared as try_update compares them.                                   *)
(***************************************************************************)
Dotted(a, b, c, d) == a \o <<".">> \o b \o <<".">> \o c \o <<".">> \o d

\* i32::MAX and the integer after it, as digits
D_I32Max == <<"2", "1", "4", "7", "4", "8", "3", "6", "4", "7">>

D_I32Over == <<"2", "1", "4", "7", "4", "8", "3", "6", "4", "8">>

Versions4 ==
    { V_1_9_0_0,
      V_1_10_0_0,
      Dotted(<<"1">>, <<"1", "0">>, <<"0">>, <<"1">>),
      Dotted(<<"1">>, <<"9">>, <<"9">>, <<"9">>),
      Dotted(<<"2">>, <<"0">>, <<"0">>, <<"0">>),
      Dotted(<<"0", "1">>, <<"9">>, <<"0">>, <<"0">>),
      Dotted(<<"1">>, <<"2">>, <<"0">>, <<"0">>),
      Dotted(<<"1">>, D_I32Max, <<"0">>, <<"0">>),
      Dotted(<<"1">>, D_I32Over, <<"0">>, <<"0">>) }

InitCompare ==
    /\ self = [server_dir |-> AbsPath(<<ServerDirName>>),
               update_dir |-> AbsPath(<<ServerDirName, UpdateDirName>>),
               version_path |-> AbsPath(<<ServerDirName, VersionFileName>>),
               set_first_version |-> None]
    /\ fs = FreshTree
    /\ pc = "Idle"
    /\ document = << >>
    /\ download_link = NoUrl
    /\ contents = None
    /\ current = NoVersion
    /\ latest = NoVersion
    /\ bedrock_server_zip = NoZip
    /\ entries = {}
    /\ result = NoResult
    /\ cycles = 0
    /\ fs_cycle = fs
    /\ fs_install = fs
    /\ staged = NoTree
    /\ installed = None
    /\ texts \in Versions4 \X Versions4 \X Versions4
    /\ versions = << >>
    /\ order = NoOrder

\* get_versions: Version::from(text).ok_or(UnparseableVersion)
ParseVersions ==
    /\ versions = << >>
    /\ \A i \in 1..3 : VersionFrom(texts[i]).ok
    /\ versions' = [i \in 1..3 |-> VersionFrom(texts[i]).val]
    /\ UNCHANGED <<texts, order, runvars>>

\* try_update: the comparisons behind `current == latest` and
\* `current > latest`, for each pair of the three
CompareVersionPairs ==
    /\ versions # << >>
    /\ order = NoOrder
    /\ order' = [ab |-> Compare(versions[1], versions[2]),
                 ba |-> Compare(versions[2], versions[1]),
                 bc |-> Compare(versions[2], versions[3]),
                 ac |-> Compare(versions[1], versions[3]),
                 aa |-> Compare(versions[1], versions[1])]
    /\ UNCHANGED <<texts, versions, runvars>>

NextCompare ==
    \/ ParseVersions
    \/ CompareVersionPairs

SpecCompare == InitCompare /\ [][NextCompare]_vars


(***************************************************************************)
(* What the claims speak of                                                *)
(***************************************************************************)
\* the places of the installation tree: the server directory without the
\* staging tree and the version file
InInstallTree(q) ==
    IsPrefix(ServerDir, q) /\ ~IsPrefix(UpdateDir, q) /\ q # VersionPath

InstallTree(f) == [q \in {r \in DOMAIN f : InInstallTree(r)} |-> f[q]]

StagingTree(f) == [q \in Under(f, UpdateDir) |-> f[q]]

\* the content of the version record (None: no record)
VersionRecord(f) ==
    IF IsFile(f, VersionPath) THEN Some(f[VersionPath].content) ELSE None

\* install_server has returned, from one of its steps
InstallReturned ==
    /\ pc = "Idle"
    /\ result.at \in {"create_dir_all", "extract", "read_dir", "file_name", "copy",
                      "write_version", "remove_dir_all", "install_server"}

InstallSucceeded ==
    pc = "Idle" /\ result.at = "install_server" /\ result.status = "Ok"

\* the names of the top-level staged entries
StagedNames == {r[1] : r \in {x \in DOMAIN staged : Len(x) = 1}}

\* the comparison the next cycle makes against the same download link
NextCycleCompare ==
    LET cur == get_current_version(self.set_first_version, VersionRecord(fs))
    IN  Compare(VersionFrom(cur.val).val,
                VersionFrom(get_latest_version(result.path).val).val)

P_server_properties == ServerDir \o <<"server.properties">>

P_bedrock_server == ServerDir \o <<"bedrock_server">>

P_level_dat == ServerDir \o <<"worlds", "level.dat">>

P_save_db == ServerDir \o <<"worlds", "save.db">>

(***************************************************************************)
(* C1: install_server never overwrites a protected file.  During and after *)
(* an install, succeeded or failed, every entry of the server directory    *)
(* whose name is in the blacklist and that existed when install_server was *)
(* entered is as it was then.                                              *)
(***************************************************************************)
C1_ProtectedFilesKept ==
    (pc \in InstallSteps \/ InstallReturned) =>
        \A n \in overwrite_blacklist :
            \A r \in Under(fs_install, ServerDir \o <<n>>) :
                r \in DOMAIN fs /\ fs[r] = fs_install[r]

\* a successful install whose archive staged another server.properties and
\* a new binary: the binary was replaced, the operator's file kept
C1_Witness ==
    /\ InstallSucceeded
    /\ <<"server.properties">> \in DOMAIN staged
    /\ staged[<<"server.properties">>].content = C_new
    /\ IsFile(fs_install, P_server_properties)
    /\ fs[P_server_properties].content = C_user
    /\ fs[P_bedrock_server].content = C_new

(***************************************************************************)
(* C2: the version record is written only after every staged entry has     *)
(* been processed without error.  While the entries are being copied, and  *)
(* after an install that failed on an entry, the version record is what it *)
(* was when install_server was entered, and the next cycle against the     *)
(* same download link finds current < latest again.                        *)
(***************************************************************************)
C2_VersionWrittenLast ==
    /\ (pc \in {"StagingCreated", "Extracted", "Copying"}
        \/ (pc = "Idle" /\ result.at \in {"file_name", "copy"}))
       => VersionRecord(fs) = VersionRecord(fs_install)
    /\ (pc = "Idle" /\ result.at \in {"file_name", "copy"})
       => NextCycleCompare = "Lt"

\* a copy failed after the binary had been replaced; the record still holds
\* the old version
C2_Witness ==
    /\ pc = "Idle"
    /\ result.at = "copy"
    /\ IsFile(fs_install, P_bedrock_server)
    /\ fs_install[P_bedrock_server].content = C_old
    /\ fs[P_bedrock_server].content = C_new
    /\ VersionRecord(fs) = Some(V_1_9_0_0)

(***************************************************************************)
(* C3: when the extraction of the archive fails, install_server returns an *)
(* error with the installation tree and the version record as they were    *)
(* when it was entered.                                                    *)
(***************************************************************************)
C3_ExtractFailureLeavesTree ==
    (pc = "Idle" /\ result.at = "extract") =>
        /\ result.status = "Err"
        /\ result.err = "ServerZipExtractFailed"
        /\ InstallTree(fs) = InstallTree(fs_install)
        /\ VersionRecord(fs) = VersionRecord(fs_install)

\* a corrupt archive, extracted in part into the staging tree of a server in
\* use
C3_Witness ==
    /\ pc = "Idle"
    /\ result.at = "extract"
    /\ IsFile(fs, UpdateDir \o <<"bedrock_server">>)
    /\ IsFile(fs, P_bedrock_server)
    /\ fs[P_bedrock_server].content = C_old

(***************************************************************************)
(* C4: the staging tree is always removed by the end of an install: after  *)
(* install_server has returned, with success or with an error, the staging *)
(* directory does not exist.                                               *)
(***************************************************************************)
C4_StagingAlwaysRemoved ==
    InstallReturned => ~Exists(fs, UpdateDir)

(***************************************************************************)
(* C5: with set_first_version given, get_current_version returns its text  *)
(* as the current version and leaves the version record holding exactly    *)
(* that text, whatever the record held before (a failed write of the       *)
(* record is an I/O error of the step).                                    *)
(***************************************************************************)
C5_OverrideWins ==
    self.set_first_version.some =>
        /\ pc = "VersionsResolved" =>
             /\ current.str = self.set_first_version.val
             /\ VersionRecord(fs) = Some(self.set_first_version.val)
        /\ (pc = "Idle" /\ result.at = "get_versions") =>
             VersionRecord(fs) = Some(self.set_first_version.val)
        /\ (pc = "Idle" /\ result.at = "get_current_version") =>
             result.err = "IoError"

\* the record held another version before the cycle
C5_Witness ==
    /\ pc = "VersionsResolved"
    /\ self.set_first_version = Some(V_1_9_0_0)
    /\ VersionRecord(fs_cycle) = Some(V_1_10_0_0)
    /\ VersionRecord(fs) = Some(V_1_9_0_0)

(***************************************************************************)
(* C6: without set_first_version, a missing version record makes the       *)
(* resolution fail with NoCurrentVersion, a record that is there is parsed *)
(* as the current version, and in both cases nothing is written.           *)
(***************************************************************************)
C6_NoOverride ==
    ~self.set_first_version.some =>
        /\ pc = "VersionsResolved" =>
             /\ IsFile(fs_cycle, VersionPath)
             /\ current = VersionFrom(fs_cycle[VersionPath].content).val
             /\ fs = fs_cycle
        /\ (pc = "Idle" /\ result.at \in {"get_current_version", "get_versions"}) =>
             /\ fs = fs_cycle
             /\ result.err = "NoCurrentVersion" <=> ~IsFile(fs_cycle, VersionPath)

\* no record and no set_first_version
C6_Witness ==
    /\ pc = "Idle"
    /\ ~self.set_first_version.some
    /\ result.err = "NoCurrentVersion"
    /\ ~IsFile(fs, VersionPath)
    /\ IsFile(fs, P_bedrock_server)


(***************************************************************************)
(* C7: after a successful install_server every top-level staged plain file *)
(* whose name is not in the blacklist is in the server directory under its *)
(* name, with the staged content, also where another file was before.      *)
(***************************************************************************)
C7_StagedFilesInstalled ==
    (pc = "VersionWritten" \/ InstallSucceeded) =>
        \A n \in StagedNames :
            (staged[<<n>>].kind = "file" /\ n \notin overwrite_blacklist) =>
                /\ IsFile(fs, ServerDir \o <<n>>)
                /\ fs[ServerDir \o <<n>>].content = staged[<<n>>].content

\* the old binary was replaced by the staged one
C7_Witness ==
    /\ InstallSucceeded
    /\ IsFile(fs_install, P_bedrock_server)
    /\ fs_install[P_bedrock_server].content = C_old
    /\ <<"bedrock_server">> \in DOMAIN staged
    /\ staged[<<"bedrock_server">>].content = C_new
    /\ fs[P_bedrock_server].content = C_new

(***************************************************************************)
(* C8: a staged directory is merged into the server directory: during and  *)
(* after an install every file below a directory of the installation tree  *)
(* that has no counterpart in the staging tree is as it was when           *)
(* install_server was entered, and every directory is still a directory.   *)
(***************************************************************************)
C8_DirectoryMergeKeepsFiles ==
    (pc \in InstallSteps \/ InstallReturned) =>
        \A q \in DOMAIN fs_install :
            (InInstallTree(q) /\ Len(q) >= Len(ServerDir) + 1) =>
                /\ IsDir(fs_install, q) => IsDir(fs, q)
                /\ (/\ IsFile(fs_install, q)
                    /\ Len(q) >= Len(ServerDir) + 2
                    /\ Slice(q, Len(ServerDir) + 1, Len(q)) \notin DOMAIN staged)
                   => (q \in DOMAIN fs /\ fs[q] = fs_install[q])

\* worlds/ was merged: the staged level.dat replaced the old one and the
\* save, which the archive does not hold, is still there
C8_Witness ==
    /\ InstallSucceeded
    /\ <<"worlds", "level.dat">> \in DOMAIN staged
    /\ <<"worlds", "save.db">> \notin DOMAIN staged
    /\ IsFile(fs_install, P_level_dat)
    /\ fs_install[P_level_dat].content = C_old
    /\ fs[P_level_dat].content = C_new
    /\ IsFile(fs, P_save_db)
    /\ fs[P_save_db].content = C_save

(***************************************************************************)
(* C9: a cycle that resolved current < latest and returned Ok went through *)
(* install_server, and the version record then holds exactly the text of   *)
(* the latest version, the one found in the path of the download link.     *)
(***************************************************************************)
C9_VersionRecorded ==
    (pc = "Idle" /\ result.status = "Ok" /\ result.cmp = "Lt") =>
        /\ result.at = "install_server"
        /\ result.branch = "Updating"
        /\ get_latest_version(result.path).ok
        /\ VersionRecord(fs) = Some(get_latest_version(result.path).val)

\* an update from 1.9.0.0 to 1.10.0.0
C9_Witness ==
    /\ InstallSucceeded
    /\ VersionRecord(fs_cycle) = Some(V_1_9_0_0)
    /\ VersionRecord(fs) = Some(V_1_10_0_0)
    /\ fs[P_bedrock_server].content = C_new

(***************************************************************************)
(* C10: a cycle that resolves current == latest reaches UpToDate and       *)
(* writes nothing: the whole file system is as it was when the cycle       *)
(* started.                                                                *)
(***************************************************************************)
C10_NoWriteWhenUpToDate ==
    (pc = "Idle" /\ result.cmp = "Eq") =>
        /\ result.status = "Ok"
        /\ result.branch = "UpToDate"
        /\ result.at = "try_update"
        /\ fs = fs_cycle

(***************************************************************************)
(* C10, amended: a cycle that resolves current == latest reaches UpToDate, *)
(* downloads nothing and does not enter install_server; the installation   *)
(* tree and the staging tree are as they were when the cycle started; the  *)
(* version record is unchanged when no set_first_version is given, and     *)
(* holds the text of set_first_version, written by get_current_version,    *)
(* when one is given.                                                      *)
(***************************************************************************)
C10_UpToDateWritesOnlyOverride ==
    (pc = "Idle" /\ result.cmp = "Eq") =>
        /\ result.status = "Ok"
        /\ result.branch = "UpToDate"
        /\ result.at = "try_update"
        /\ InstallTree(fs) = InstallTree(fs_cycle)
        /\ StagingTree(fs) = StagingTree(fs_cycle)
        /\ ~self.set_first_version.some => fs = fs_cycle
        /\ self.set_first_version.some =>
             /\ VersionRecord(fs) = Some(self.set_first_version.val)
             /\ Without(fs, {VersionPath}) = Without(fs_cycle, {VersionPath})

\* an up-to-date server in use, no set_first_version
C10_Witness ==
    /\ pc = "Idle"
    /\ result.cmp = "Eq"
    /\ result.branch = "UpToDate"
    /\ ~self.set_first_version.some
    /\ VersionRecord(fs) = Some(V_1_10_0_0)
    /\ IsFile(fs, P_bedrock_server)

(***************************************************************************)
(* C11: a cycle that resolves current > latest reaches AheadOfRemote and   *)
(* returns Ok with the installation tree and the staging tree as they      *)
(* were; an archive is downloaded and install_server is entered only in a  *)
(* cycle that resolved current < latest.                                   *)
(***************************************************************************)
C11_AheadOfRemoteNoInstall ==
    /\ (pc = "Idle" /\ result.cmp = "Gt") =>
          /\ result.status = "Ok"
          /\ result.err = "None"
          /\ result.branch = "AheadOfRemote"
          /\ result.at = "try_update"
          /\ InstallTree(fs) = InstallTree(fs_cycle)
          /\ StagingTree(fs) = StagingTree(fs_cycle)
    /\ (pc \in InstallSteps \cup {"Updating"} \/ bedrock_server_zip # NoZip) =>
          Compare(current, latest) = "Lt"
    /\ (InstallReturned \/ (pc = "Idle" /\ result.at = "download")) =>
          result.cmp = "Lt"

\* the server in use holds 1.10.0.0 and the page offers 1.9.0.0
C11_Witness ==
    /\ pc = "Idle"
    /\ result.cmp = "Gt"
    /\ result.branch = "AheadOfRemote"
    /\ result.version = V_1_9_0_0
    /\ VersionRecord(fs) = Some(V_1_10_0_0)
    /\ IsFile(fs, P_bedrock_server)
    /\ fs[P_bedrock_server].content = C_old

(***************************************************************************)
(* C12: get_latest_download_link gives a URL only for a page with exactly  *)
(* one matching element: none is NoDownloadElement, two or more is         *)
(* TooManyDownloadElements also when the first carries a valid href, one   *)
(* without href is NoDownloadLinkAttr, and one whose href is no URL is a   *)
(* URL parse error; the URL given is the href of the only element.         *)
(***************************************************************************)
C12_ExactlyOneDownloadElement ==
    [][pc = "DocumentFetched" =>
        /\ Len(document) = 0 =>
              (pc' = "Idle" /\ result'.err = "NoDownloadElement")
        /\ Len(document) >= 2 =>
              (pc' = "Idle" /\ result'.err = "TooManyDownloadElements")
        /\ (Len(document) = 1 /\ ~document[1].href.some) =>
              (pc' = "Idle" /\ result'.err = "NoDownloadLinkAttr")
        /\ document = <<Href(Link_relative)>> =>
              (pc' = "Idle" /\ result'.err = "UrlParseError")
        /\ pc' = "LinkResolved" =>
              /\ Len(document) = 1
              /\ document[1].href.some
              /\ download_link'.text = document[1].href.val
        /\ pc' = "Idle" =>
              (result'.status = "Err" /\ result'.at = "get_latest_download_link")
      ]_vars

\* a page with two matching elements (the first with a valid href) was
\* refused
C12_Witness ==
    /\ pc = "Idle"
    /\ result.at = "get_latest_download_link"
    /\ result.err = "TooManyDownloadElements"
    /\ \E d \in Documents : Len(d) >= 2 /\ UrlParse(d[1].href.val).ok

(***************************************************************************)
(* The order C13 speaks of: a text of four dot-separated integers is the   *)
(* tuple of its integers, and tuples are ordered lexicographically, most   *)
(* significant first.  An integer is a run of digits of any length.        *)
(***************************************************************************)
RECURSIVE StripZeros(_)
StripZeros(d) ==
    IF Len(d) > 1 /\ Head(d) = "0" THEN StripZeros(Tail(d)) ELSE d

\* two runs of digits of the same length, digit by digit
RECURSIVE DigitwiseCmp(_, _)
DigitwiseCmp(x, y) ==
    IF x = << >> THEN "Eq"
    ELSE IF DigitVal(Head(x)) < DigitVal(Head(y)) THEN "Lt"
    ELSE IF DigitVal(Head(x)) > DigitVal(Head(y)) THEN "Gt"
    ELSE DigitwiseCmp(Tail(x), Tail(y))

\* two runs of digits as integers
IntegerCmp(x, y) ==
    LET a == StripZeros(x)
        b == StripZeros(y)
    IN  IF Len(a) < Len(b) THEN "Lt"
        ELSE IF Len(a) > Len(b) THEN "Gt"
        ELSE DigitwiseCmp(a, b)

RECURSIVE TupleCmp(_, _)
TupleCmp(xs, ys) ==
    IF xs = << >> THEN "Eq"
    ELSE IF IntegerCmp(Head(xs), Head(ys)) # "Eq" THEN IntegerCmp(Head(xs), Head(ys))
    ELSE TupleCmp(Tail(xs), Tail(ys))

LexicographicCmp(s, t) == TupleCmp(SplitDots(s, << >>), SplitDots(t, << >>))

(***************************************************************************)
(* C13: the comparison of versions is the lexicographic order over the     *)
(* four integer components, most significant first: every comparison of    *)
(* two of three versions a, b, c is what that order gives, a compares      *)
(* Equal to itself, the comparison of b with a is the converse of that of  *)
(* a with b, and the order is transitive.                                  *)
(***************************************************************************)
C13_LexicographicTotalOrder ==
    order # NoOrder =>
        /\ order.ab = LexicographicCmp(texts[1], texts[2])
        /\ order.bc = LexicographicCmp(texts[2], texts[3])
        /\ order.ac = LexicographicCmp(texts[1], texts[3])
        /\ order.aa = "Eq"
        /\ order.ba = Flip(order.ab)
        /\ (order.ab = "Eq" /\ order.bc = "Eq") => order.ac = "Eq"
        /\ (order.ab \in {"Lt", "Eq"} /\ order.bc \in {"Lt", "Eq"}
            /\ "Lt" \in {order.ab, order.bc}) => order.ac = "Lt"

(***************************************************************************)
(* C14: a failed fetch of the page or a failed download of the archive     *)
(* ends the cycle with an error and the installation tree, the staging     *)
(* tree and the version record as they were when the cycle started.        *)
(***************************************************************************)
C14_TransportFailureNoMutation ==
    (pc = "Idle" /\ result.at \in {"fetch_document", "download"}) =>
        /\ result.status = "Err"
        /\ InstallTree(fs) = InstallTree(fs_cycle)
        /\ StagingTree(fs) = StagingTree(fs_cycle)
        /\ VersionRecord(fs) = VersionRecord(fs_cycle)

(***************************************************************************)
(* C14, amended: a failed fetch of the page ends the cycle with an error   *)
(* and the file system as it was; a failed download of the archive ends    *)
(* the cycle with an error and the installation tree and the staging tree  *)
(* as they were, the version record unchanged when no set_first_version is *)
(* given and holding the text of set_first_version, written by             *)
(* get_current_version before the download, when one is given.             *)
(***************************************************************************)
C14_TransportFailureWritesOnlyOverride ==
    /\ (pc = "Idle" /\ result.at = "fetch_document") =>
          (result.status = "Err" /\ result.err = "RequestError" /\ fs = fs_cycle)
    /\ (pc = "Idle" /\ result.at = "download") =>
          /\ result.status = "Err"
          /\ result.err = "RequestError"
          /\ InstallTree(fs) = InstallTree(fs_cycle)
          /\ StagingTree(fs) = StagingTree(fs_cycle)
          /\ ~self.set_first_version.some => fs = fs_cycle
          /\ self.set_first_version.some =>
               /\ VersionRecord(fs) = Some(self.set_first_version.val)
               /\ Without(fs, {VersionPath}) = Without(fs_cycle, {VersionPath})

\* the download failed for a server in use whose record the cycle had
\* created from set_first_version
C14_Witness ==
    /\ pc = "Idle"
    /\ result.at = "download"
    /\ result.status = "Err"
    /\ self.set_first_version = Some(V_1_9_0_0)
    /\ VersionRecord(fs_cycle) = None
    /\ VersionRecord(fs) = Some(V_1_9_0_0)
    /\ IsFile(fs, P_bedrock_server)
    /\ fs[P_bedrock_server].content = C_old

(***************************************************************************)
(* What C15 and C16 speak of: the file name of a download link is the text *)
(* after the last "/" of its path, and its path ends before the first "?"  *)
(* or "#" of the link.                                                     *)
(***************************************************************************)
LastSegment(path) ==
    LET slashes == {i \in 1..Len(path) : path[i] = "/"}
    IN  IF slashes = {} THEN path
        ELSE Slice(path, (CHOOSE i \in slashes : \A j \in slashes : j <= i) + 1, Len(path))

PathWithoutQuery(link) ==
    LET marks == {i \in 1..Len(link) : link[i] \in {"?", "#"}}
        end   == IF marks = {} THEN Len(link)
                 ELSE (CHOOSE i \in marks : \A j \in marks : i <= j) - 1
    IN  Slice(link, 3, end)

(***************************************************************************)
(* C15: the latest version is taken from the file name of the download     *)
(* link, the last segment of the path of the URL: whenever a cycle has     *)
(* resolved the versions, the latest version is the first match of the     *)
(* pattern in that file name.                                              *)
(***************************************************************************)
C15_LatestFromFileName ==
    pc \in AfterVersions =>
        /\ get_latest_version(LastSegment(download_link.path)).ok
        /\ latest.str = get_latest_version(LastSegment(download_link.path)).val

(***************************************************************************)
(* C16: the query and the fragment of the download link have no part in    *)
(* the latest version: the step that resolves the versions gives the match *)
(* of the pattern in the link cut before its first "?" or "#", and fails   *)
(* when there is none there, whatever follows the cut.                     *)
(***************************************************************************)
C16_QueryNeverUsed ==
    [][pc = "ContentsRead" =>
        LET m == get_latest_version(PathWithoutQuery(download_link.text))
        IN  /\ pc' = "VersionsResolved" => (m.ok /\ latest'.str = m.val)
            /\ ~m.ok => (pc' = "Idle" /\ result'.status = "Err")
            /\ (pc' = "Idle" /\ result'.err = "NoVersionString") => ~m.ok
      ]_vars

\* the link b-1.9.0.0.z?1.10.0.0 resolved to 1.9.0.0
C16_Witness ==
    /\ pc = "VersionsResolved"
    /\ download_link.text = Link_query_version
    /\ latest.str = V_1_9_0_0
    /\ current.str = V_1_9_0_0

(***************************************************************************)
(* C17: every version that takes part in the comparison has exactly four   *)
(* integer components: whenever a cycle has resolved the versions, the     *)
(* current and the latest version are each four numbers.                   *)
(***************************************************************************)
C17_FourIntegerComponents ==
    pc \in AfterVersions =>
        \A v \in {current, latest} :
            /\ Len(v.parts) = 4
            /\ \A i \in 1..Len(v.parts) : v.parts[i].num

(***************************************************************************)
(* What C18 speaks of: the step that follows each step of a cycle when it  *)
(* does not fail.                                                          *)
(***************************************************************************)
StepAfter(p) ==
    CASE p = "Idle"             -> {"DocumentFetched"}
      [] p = "DocumentFetched"  -> {"LinkResolved"}
      [] p = "LinkResolved"     -> {"ServerDirChecked"}
      [] p = "ServerDirChecked" -> {"ContentsRead"}
      [] p = "ContentsRead"     -> {"VersionsResolved"}
      [] p = "VersionsResolved" -> {"Updating"}
      [] p = "Updating"         -> {"Downloaded"}
      [] p = "Downloaded"       -> {"StagingCreated"}
      [] p = "StagingCreated"   -> {"Extracted"}
      [] p = "Extracted"        -> {"Copying"}
      [] p = "Copying"          -> {"Copying", "VersionWritten"}
      [] p = "VersionWritten"   -> {}

(***************************************************************************)
(* C18: a cycle takes its steps in order (fetch the page, extract the      *)
(* link, check the server directory, resolve the versions, compare, and    *)
(* only when current < latest download, stage, merge, record the version,  *)
(* clean up); a failure ends the cycle with an error and no later step     *)
(* runs; a cycle returns Ok only from the comparison or after the clean    *)
(* up; and every cycle that has started comes back to Idle with Ok or an   *)
(* error.                                                                  *)
(***************************************************************************)
C18_StepsInOrderAndTerminate ==
    /\ [][/\ pc' \in StepAfter(pc) \cup {"Idle"}
          /\ pc' # "Idle" => result' = Running
          /\ pc' = "Idle" => result'.status \in {"Ok", "Err"}
          /\ (pc' = "Idle" /\ result'.status = "Ok") =>
                \/ pc = "VersionsResolved" /\ Compare(current, latest) # "Lt"
                \/ pc = "VersionWritten"
          /\ pc' = "Updating" => Compare(current, latest) = "Lt"
          /\ (pc = "LinkResolved" /\ ~Exists(fs, ServerDir)) =>
                (pc' = "Idle" /\ result'.err = "NoServerPath")
         ]_vars
    /\ (pc # "Idle") ~> (pc = "Idle" /\ result.status \in {"Ok", "Err"})

\* two cycles have run to their end, the second through every step
C18_Witness ==
    /\ cycles = MaxCycles
    /\ InstallSucceeded
    /\ StagedNames # {}
    /\ fs # fs_install

(***************************************************************************)
(* What C19 speaks of: the tree an archive gives when it is extracted into *)
(* a new, empty directory.                                                 *)
(***************************************************************************)
ArchiveTree(zip) ==
    Subtree(Extract(With(Root, <<"fresh">>, DirNode), <<"fresh">>, zip).fs, <<"fresh">>)

(***************************************************************************)
(* C19: the staging tree is fresh for each install: the entries that       *)
(* install_server enumerates and merges are exactly the entries of the     *)
(* archive downloaded in the running cycle.                                *)
(***************************************************************************)
C19_StagingFresh ==
    pc \in {"Copying", "VersionWritten"} => staged = ArchiveTree(bedrock_server_zip)

(***************************************************************************)
(* C20: a staged top-level file whose name is in the blacklist and for     *)
(* which nothing of that name was in the installation tree when            *)
(* install_server was entered is not skipped: after a successful install   *)
(* it is in the server directory with the staged content.                  *)
(***************************************************************************)
C20_MissingProtectedFileInstalled ==
    (pc = "VersionWritten" \/ InstallSucceeded) =>
        \A n \in StagedNames \cap overwrite_blacklist :
            (staged[<<n>>].kind = "file" /\ ~Exists(fs_install, ServerDir \o <<n>>)) =>
                /\ IsFile(fs, ServerDir \o <<n>>)
                /\ fs[ServerDir \o <<n>>].content = staged[<<n>>].content

\* the archive brought a permissions.json to a server in use that had none
C20_Witness ==
    /\ InstallSucceeded
    /\ <<"permissions.json">> \in DOMAIN staged
    /\ ~Exists(fs_install, ServerDir \o <<"permissions.json">>)
    /\ IsFile(fs_install, P_server_properties)
    /\ IsFile(fs, ServerDir \o <<"permissions.json">>)
    /\ fs[ServerDir \o <<"permissions.json">>].content = staged[<<"permissions.json">>].content

(***************************************************************************)
(* C21: an update converges.  Once a cycle has installed version L and the *)
(* cycles since have all found L as the latest version, a cycle that       *)
(* resolves the versions finds current == L, goes no further than the      *)
(* comparison (no download, no install) and returns UpToDate, also with a  *)
(* set_first_version lower than L.                                         *)
(***************************************************************************)
C21_UpdateConverges ==
    installed.some =>
        /\ (pc \in AfterVersions /\ latest.str = installed.val) =>
              (pc = "VersionsResolved" /\ Compare(current, latest) = "Eq")
        /\ (pc = "Idle" /\ result.at = "try_update"
            /\ result.version = installed.val) =>
              result.branch = "UpToDate"

(***************************************************************************)
(* C22: without set_first_version the version record never decreases: the  *)
(* only step that changes it is the write of the version at the end of     *)
(* install_server, after the merge, and the version written is strictly    *)
(* greater than the one the record held when the cycle started.            *)
(***************************************************************************)
C22_RecordOnlyGrows ==
    [][(~self.set_first_version.some /\ VersionRecord(fs') # VersionRecord(fs)) =>
          /\ pc = "Copying"
          /\ entries = {}
          /\ pc' = "VersionWritten"
          /\ VersionRecord(fs) = VersionRecord(fs_cycle)
          /\ VersionRecord(fs).some
          /\ VersionRecord(fs').some
          /\ Compare(VersionFrom(VersionRecord(fs).val).val,
                     VersionFrom(VersionRecord(fs').val).val) = "Lt"
      ]_vars

\* the record of a server in use went from 1.9.0.0 to 1.10.0.0, no
\* set_first_version given
C22_Witness ==
    /\ pc = "VersionWritten"
    /\ ~self.set_first_version.some
    /\ VersionRecord(fs_install) = Some(V_1_9_0_0)
    /\ VersionRecord(fs) = Some(V_1_10_0_0)
    /\ IsFile(fs, P_save_db)

(***************************************************************************)
(* C23: the source of every copy is the staged entry itself: for each path *)
(* that the enumeration of update_dir gave, update_dir joined with that    *)
(* path names the entry of that name in the staging tree, which exists,    *)
(* for an absolute update_dir and for a relative one.                      *)
(***************************************************************************)
C23_CopySourceIsStagedEntry ==
    pc = "Copying" =>
        \A path \in entries :
            /\ Resolve(copy_source(self.update_dir, path)) = UpdateDir \o <<FileName(path)>>
            /\ Exists(fs, Resolve(copy_source(self.update_dir, path)))

=============================================================================
